---- MODULE Spec2Model ----
(***************************************************************************)
(* NavigationPlugin of aws-rum-web (src/unnamed/part_000): the lifecycle   *)
(* of the load-signal listener (load / enable / disable), the detection of *)
(* a load that has already fired, the choice between the Navigation Timing *)
(* Level 1 and Level 2 paths, and the two normalizations.                  *)
(*                                                                         *)
(* The host (the browser) is part of the state: the load listeners of      *)
(* window, performance.getEntriesByType('navigation'), performance.timing  *)
(* and the queue of setTimeout(.., 0) callbacks.  Every action is one      *)
(* turn of the single JavaScript thread.  The host is assumed to expose    *)
(* window.performance.                                                     *)
(***************************************************************************)
EXTENDS Integers, Sequences, FiniteSets, TLC

VARIABLES
    enabled,      \* this.enabled
    recordEvent,  \* this.recordEvent: undefined or a context.record callback
    listeners,    \* window's event listener list for 'load', in order
    navEntries,   \* performance.getEntriesByType('navigation')
    timing,       \* performance.timing
    timers,       \* pending setTimeout(recordNavigation, 0) callbacks, FIFO
    recorded,     \* the calls made to a recording callback, in order
    fired,        \* history: one entry per run of eventListener
    loadSignals,  \* history: number of load signals the host has delivered
    loadCalls,    \* history: number of calls of load(context)
    cancelled,    \* history: disable() removed an armed listener before any
                  \* load signal, and neither enable() nor load() came after
    retro,        \* history: "missed" once a load signal was delivered
                  \* while disabled, "reenabled" once enable() followed it,
                  \* "none" again with the next load() or load signal
    lastOp        \* history: the operation of the last turn

vars == <<enabled, recordEvent, listeners, navEntries, timing, timers,
          recorded, fired, loadSignals, loadCalls, cancelled, retro, lastOp>>

(***************************************************************************)
(* Bounds of the model.                                                    *)
(***************************************************************************)
MaxLoadCalls == 2
MaxLoadSignals == 2
MaxTime == 2

(***************************************************************************)
(* Program constants and values.                                           *)
(***************************************************************************)
NAVIGATION_EVENT_PLUGIN_ID == "com.amazonaws.rum.navigation"
PERFORMANCE_NAVIGATION_EVENT_TYPE == "PERFORMANCE_NAVIGATION_EVENT_TYPE"
LOAD == "load"
undefined == "undefined"
\* the context.record callbacks a caller may hand to load(): the component
\* only stores the callback and tests it against undefined
Callbacks == {"record"}
\* the identity of the arrow function stored in this.eventListener
EventListenerRef == "eventListener"

(***************************************************************************)
(* The host's timing data.                                                 *)
(***************************************************************************)
\* the attributes of performance.timing that the Level 1 path reads
TimingFields ==
    {"navigationStart", "unloadEventStart", "unloadEventEnd", "redirectStart",
     "redirectEnd", "fetchStart", "domainLookupStart", "domainLookupEnd",
     "connectStart", "connectEnd", "secureConnectionStart", "requestStart",
     "responseStart", "responseEnd", "domInteractive",
     "domContentLoadedEventStart", "domContentLoadedEventEnd", "domComplete",
     "loadEventStart", "loadEventEnd"}

\* the numeric attributes of a PerformanceNavigationTiming entry that the
\* Level 2 path reads
EntryFields ==
    (TimingFields \ {"navigationStart"}) \cup
    {"startTime", "redirectCount", "workerStart", "duration", "transferSize",
     "encodedBodySize", "decodedBodySize"}

TimeValues == (0 - 1)..MaxTime

\* a performance.timing record in which at most the attributes a and b are
\* not zero
TimingWith(a, x, b, y) ==
    [f \in TimingFields |-> IF f = a THEN x ELSE IF f = b THEN y ELSE 0]

\* a navigation entry in which at most the attributes a and b are not zero
EntryWith(a, x, b, y) ==
    [f \in EntryFields |-> IF f = a THEN x ELSE IF f = b THEN y ELSE 0]
    @@ [initiatorType |-> "navigation", type |-> "navigate",
        nextHopProtocol |-> "h2"]

\* every performance.timing record with at most two attributes not zero
NormTimings ==
    {TimingWith(a, x, b, y) : a \in TimingFields, b \in TimingFields,
                              x \in TimeValues, y \in TimeValues}

\* every navigation entry with at most two numeric attributes not zero
NormEntries ==
    {EntryWith(a, x, b, y) : a \in EntryFields, b \in EntryFields,
                             x \in TimeValues, y \in TimeValues}

\* the legacy host of the specification's scenario
ScenarioTiming ==
    [TimingWith("navigationStart", 1000, "requestStart", 1200)
        EXCEPT !.responseStart = 1250, !.responseEnd = 1300,
               !.loadEventStart = 1400, !.loadEventEnd = 1450]

\* the modern host entry of the specification's scenario
ScenarioEntry ==
    [EntryWith("transferSize", 500, "encodedBodySize", 300)
        EXCEPT !.decodedBodySize = 900]

\* the page of the lifecycle runs: the timestamps of a load in progress
\* (loadEventEnd is still 0), and of the same load once complete
PageTiming ==
    [navigationStart |-> 1, unloadEventStart |-> 0, unloadEventEnd |-> 0,
     redirectStart |-> 0, redirectEnd |-> 0, fetchStart |-> 1,
     domainLookupStart |-> 1, domainLookupEnd |-> 2, connectStart |-> 2,
     connectEnd |-> 3, secureConnectionStart |-> 2, requestStart |-> 3,
     responseStart |-> 4, responseEnd |-> 5, domInteractive |-> 5,
     domContentLoadedEventStart |-> 5, domContentLoadedEventEnd |-> 6,
     domComplete |-> 6, loadEventStart |-> 6, loadEventEnd |-> 0]

PageEntry ==
    [f \in EntryFields |->
        IF f \in TimingFields THEN
            (IF PageTiming[f] > 0 THEN PageTiming[f] - 1 ELSE 0)
        ELSE IF f = "transferSize" THEN 5
        ELSE IF f = "encodedBodySize" THEN 3
        ELSE IF f = "decodedBodySize" THEN 9
        ELSE 0]
    @@ [initiatorType |-> "navigation", type |-> "navigate",
        nextHopProtocol |-> "h2"]

(***************************************************************************)
(* Numbers.  JavaScript's / is a division of reals: a quotient is kept as  *)
(* a fraction in lowest terms, so that 900 / 300 is 3 and 1 / 2 is not 0.  *)
(***************************************************************************)
RECURSIVE Gcd(_, _)
Gcd(a, b) == IF b = 0 THEN a ELSE Gcd(b, a % b)

Abs(a) == IF a < 0 THEN 0 - a ELSE a

\* the number n, as a fraction
Number(n) == [num |-> n, den |-> 1]

\* a division that drops the fractional part
DivideTruncating(n, d) == Number(n \div d)

\* n / d for d > 0
Divide(n, d) ==
    LET g == Gcd(Abs(n), d)
    IN  [num |-> n \div g, den |-> d \div g]

(***************************************************************************)
(* Level 1 normalization: the object built by recordNavigation from        *)
(* performance.timing.                                                     *)
(***************************************************************************)
\* the offset rule of the Level 1 path, written out in the source for each of
\* the twelve offset fields: raw > 0 ? raw - origin : 0
offsetUnguarded(raw, origin) == raw - origin

offsetFromOrigin(raw, origin) == IF raw > 0 THEN raw - origin ELSE 0

eventDataNavigationTimingLevel1(entryData) ==
    LET origin == entryData.navigationStart
    IN  [version |-> "1.0.0",
         initiatorType |-> "navigation",
         startTime |-> 0,
         unloadEventStart |->
             offsetFromOrigin(entryData.unloadEventStart, origin),
         promptForUnload |->
             entryData.unloadEventEnd - entryData.unloadEventStart,
         redirectStart |-> offsetFromOrigin(entryData.redirectStart, origin),
         redirectTime |-> entryData.redirectEnd - entryData.redirectStart,
         fetchStart |-> offsetFromOrigin(entryData.fetchStart, origin),
         domainLookupStart |->
             offsetFromOrigin(entryData.domainLookupStart, origin),
         dns |-> entryData.domainLookupEnd - entryData.domainLookupStart,
         connectStart |-> offsetFromOrigin(entryData.connectStart, origin),
         connect |-> entryData.connectEnd - entryData.connectStart,
         secureConnectionStart |->
             offsetFromOrigin(entryData.secureConnectionStart, origin),
         tlsTime |->
             IF entryData.secureConnectionStart > 0
             THEN entryData.connectEnd - entryData.secureConnectionStart
             ELSE 0,
         requestStart |-> offsetFromOrigin(entryData.requestStart, origin),
         timeToFirstByte |->
             entryData.responseStart - entryData.requestStart,
         responseStart |-> offsetFromOrigin(entryData.responseStart, origin),
         responseTime |->
             IF entryData.responseStart > 0
             THEN entryData.responseEnd - entryData.responseStart
             ELSE 0,
         domInteractive |->
             offsetFromOrigin(entryData.domInteractive, origin),
         domContentLoadedEventStart |->
             offsetFromOrigin(entryData.domContentLoadedEventStart, origin),
         domContentLoaded |->
             entryData.domContentLoadedEventEnd
                 - entryData.domContentLoadedEventStart,
         domComplete |-> offsetFromOrigin(entryData.domComplete, origin),
         domProcessingTime |->
             entryData.loadEventStart - entryData.responseEnd,
         loadEventStart |->
             offsetFromOrigin(entryData.loadEventStart, origin),
         loadEventTime |-> entryData.loadEventEnd - entryData.loadEventStart,
         duration |-> entryData.loadEventEnd - entryData.navigationStart,
         navigationTimingLevel |-> 1]

(***************************************************************************)
(* Level 2 normalization: the object built from a navigation entry.        *)
(***************************************************************************)
eventDataNavigationTimingLevel2(entryData) ==
    [version |-> "1.0.0",
     initiatorType |-> entryData.initiatorType,
     navigationType |-> entryData.type,
     startTime |-> entryData.startTime,
     unloadEventStart |-> entryData.unloadEventStart,
     promptForUnload |->
         entryData.unloadEventEnd - entryData.unloadEventStart,
     redirectCount |-> entryData.redirectCount,
     redirectStart |-> entryData.redirectStart,
     redirectTime |-> entryData.redirectEnd - entryData.redirectStart,
     workerStart |-> entryData.workerStart,
     workerTime |->
         IF entryData.workerStart > 0
         THEN entryData.fetchStart - entryData.workerStart
         ELSE 0,
     fetchStart |-> entryData.fetchStart,
     domainLookupStart |-> entryData.domainLookupStart,
     dns |-> entryData.domainLookupEnd - entryData.domainLookupStart,
     nextHopProtocol |-> entryData.nextHopProtocol,
     connectStart |-> entryData.connectStart,
     connect |-> entryData.connectEnd - entryData.connectStart,
     secureConnectionStart |-> entryData.secureConnectionStart,
     tlsTime |->
         IF entryData.secureConnectionStart > 0
         THEN entryData.connectEnd - entryData.secureConnectionStart
         ELSE 0,
     requestStart |-> entryData.requestStart,
     timeToFirstByte |-> entryData.responseStart - entryData.requestStart,
     responseStart |-> entryData.responseStart,
     responseTime |->
         IF entryData.responseStart > 0
         THEN entryData.responseEnd - entryData.responseStart
         ELSE 0,
     domInteractive |-> entryData.domInteractive,
     domContentLoadedEventStart |-> entryData.domContentLoadedEventStart,
     domContentLoaded |->
         entryData.domContentLoadedEventEnd
             - entryData.domContentLoadedEventStart,
     domComplete |-> entryData.domComplete,
     domProcessingTime |-> entryData.loadEventStart - entryData.responseEnd,
     loadEventStart |-> entryData.loadEventStart,
     loadEventTime |-> entryData.loadEventEnd - entryData.loadEventStart,
     duration |-> entryData.duration,
     headerSize |-> entryData.transferSize - entryData.encodedBodySize,
     transferSize |-> entryData.transferSize,
     compressionRatio |->
         IF entryData.encodedBodySize > 0
         THEN Divide(entryData.decodedBodySize, entryData.encodedBodySize)
         ELSE Number(0),
     navigationTimingLevel |-> 2]

(***************************************************************************)
(* The host's event target: window.addEventListener / removeEventListener  *)
(* as the plugin calls them (no options; one callback identity).           *)
(***************************************************************************)
\* window.addEventListener(LOAD, callback): the host appends the callback
\* unless the list already holds it
addEventListener(ls, callback) ==
    IF \E i \in 1..Len(ls) : ls[i] = callback THEN ls ELSE Append(ls, callback)

\* a removal called with a callback of another identity than the registered
\* one: the host finds nothing to remove
removeEventListenerOtherIdentity(ls, callback) == ls

\* window.removeEventListener(LOAD, callback): the host removes the callback
\* from the list if it is there
removeEventListener(ls, callback) ==
    IF \E i \in 1..Len(ls) : ls[i] = callback
    THEN LET k == CHOOSE i \in 1..Len(ls) :
                      /\ ls[i] = callback
                      /\ \A j \in 1..(i - 1) : ls[j] # callback
         IN  [i \in 1..(Len(ls) - 1) |-> IF i < k THEN ls[i] ELSE ls[i + 1]]
    ELSE ls

(***************************************************************************)
(* The component.  `this` is the pair of fields a handler reads (within    *)
(* load() the callback is stored before the capture runs); `eff` is what a *)
(* capture changes: the timer queue, the calls made to the recording       *)
(* callback, and the history of captures.  `via` names the caller.         *)
(***************************************************************************)
\* this.recordEvent(PERFORMANCE_NAVIGATION_EVENT_TYPE, eventData), with the
\* history of the call: the capture it belongs to, the raw data it was built
\* from, the turn it was made in and this.enabled at that moment
RecordCall(this, eventData, capture, raw, op) ==
    [callback |-> this.recordEvent,
     type |-> PERFORMANCE_NAVIGATION_EVENT_TYPE,
     event |-> eventData,
     capture |-> capture,
     raw |-> raw,
     op |-> op,
     enabled |-> this.enabled]

\* a detection that reads the load as fired while loadEventEnd is still 0
hasTheWindowLoadEventFiredInverted(es) ==
    IF Len(es) # 0 THEN es[1].loadEventEnd = 0 ELSE FALSE

\* a detection that falls back on performance.timing when there is no entry
hasTheWindowLoadEventFiredLegacy(es) ==
    IF Len(es) # 0 THEN es[1].loadEventEnd # 0 ELSE timing.loadEventEnd # 0

\* a detection that takes the load as fired when there is no entry
hasTheWindowLoadEventFiredNoEntries(es) ==
    IF Len(es) # 0 THEN es[1].loadEventEnd # 0 ELSE TRUE

\* hasTheWindowLoadEventFired(), read on the entries es
hasTheWindowLoadEventFired(es) ==
    IF Len(es) # 0 THEN es[1].loadEventEnd # 0 ELSE FALSE

\* a Level 1 handler that calls recordNavigation() itself, in the turn of the
\* load signal
performanceNavigationEventHandlerTimingLevel1Sync(this, eff, via) ==
    LET capture == Len(eff.fired) + 1
    IN  [timers |-> eff.timers,
         recorded |->
             IF this.recordEvent # undefined
             THEN Append(eff.recorded,
                         RecordCall(this,
                                    eventDataNavigationTimingLevel1(timing),
                                    capture, timing, via))
             ELSE eff.recorded,
         fired |-> Append(eff.fired,
                          [path |-> 1, via |-> via,
                           hadCallback |-> this.recordEvent # undefined,
                           enabled |-> this.enabled])]

\* a Level 1 handler that never schedules recordNavigation
performanceNavigationEventHandlerTimingLevel1NoTimer(this, eff, via) ==
    [timers |-> eff.timers,
     recorded |-> eff.recorded,
     fired |-> Append(eff.fired,
                      [path |-> 1, via |-> via,
                       hadCallback |-> this.recordEvent # undefined,
                       enabled |-> this.enabled])]

\* performanceNavigationEventHandlerTimingLevel1: only schedules
\* recordNavigation with setTimeout(.., 0)
performanceNavigationEventHandlerTimingLevel1(this, eff, via) ==
    LET capture == Len(eff.fired) + 1
    IN  [timers |-> Append(eff.timers, capture),
         recorded |-> eff.recorded,
         fired |-> Append(eff.fired,
                          [path |-> 1, via |-> via,
                           hadCallback |-> this.recordEvent # undefined,
                           enabled |-> this.enabled])]

\* a Level 2 handler that clamps a negative dns duration to 0
performanceNavigationEventHandlerTimingLevel2Clamped(this, eff, via, entryData) ==
    LET capture == Len(eff.fired) + 1
        data == eventDataNavigationTimingLevel2(entryData)
        eventData == [data EXCEPT !.dns = IF data.dns < 0 THEN 0 ELSE data.dns]
    IN  [timers |-> eff.timers,
         recorded |->
             IF this.recordEvent # undefined
             THEN Append(eff.recorded,
                         RecordCall(this, eventData, capture, entryData, via))
             ELSE eff.recorded,
         fired |-> Append(eff.fired,
                          [path |-> 2, via |-> via,
                           hadCallback |-> this.recordEvent # undefined,
                           enabled |-> this.enabled])]

\* a Level 2 handler that calls this.recordEvent without checking it
performanceNavigationEventHandlerTimingLevel2Unchecked(this, eff, via, entryData) ==
    LET capture == Len(eff.fired) + 1
        eventData == eventDataNavigationTimingLevel2(entryData)
    IN  [timers |-> eff.timers,
         recorded |->
             Append(eff.recorded,
                    RecordCall(this, eventData, capture, entryData, via)),
         fired |-> Append(eff.fired,
                          [path |-> 2, via |-> via,
                           hadCallback |-> this.recordEvent # undefined,
                           enabled |-> this.enabled])]

\* performanceNavigationEventHandlerTimingLevel2(entryData): builds the event
\* and records it at once if a callback is set
performanceNavigationEventHandlerTimingLevel2(this, eff, via, entryData) ==
    LET capture == Len(eff.fired) + 1
        eventData == eventDataNavigationTimingLevel2(entryData)
    IN  [timers |-> eff.timers,
         recorded |->
             IF this.recordEvent # undefined
             THEN Append(eff.recorded,
                         RecordCall(this, eventData, capture, entryData, via))
             ELSE eff.recorded,
         fired |-> Append(eff.fired,
                          [path |-> 2, via |-> via,
                           hadCallback |-> this.recordEvent # undefined,
                           enabled |-> this.enabled])]

\* an eventListener that takes the Level 2 path when there is no entry
eventListenerSwapped(this, eff, via) ==
    IF Len(navEntries) # 0
    THEN performanceNavigationEventHandlerTimingLevel1(this, eff, via)
    ELSE performanceNavigationEventHandlerTimingLevel2(this, eff, via,
                                                       PageEntry)

\* eventListener: the choice of the path, from the entries at this moment
eventListener(this, eff, via) ==
    IF Len(navEntries) = 0
    THEN performanceNavigationEventHandlerTimingLevel1(this, eff, via)
    ELSE performanceNavigationEventHandlerTimingLevel2(this, eff, via,
                                                       navEntries[1])

\* the host calls the listeners of the list in order
RECURSIVE CallListeners(_, _, _)
CallListeners(ls, this, eff) ==
    IF ls = <<>> THEN eff
    ELSE CallListeners(Tail(ls), this, eventListener(this, eff, "dispatch"))

This == [enabled |-> enabled, recordEvent |-> recordEvent]
Eff == [timers |-> timers, recorded |-> recorded, fired |-> fired]

SetEff(eff) ==
    /\ timers' = eff.timers
    /\ recorded' = eff.recorded
    /\ fired' = eff.fired

(***************************************************************************)
(* Operations of the component.                                            *)
(***************************************************************************)
\* a load(context) that does not look at this.enabled
loadIgnoringEnabled(record) ==
    /\ loadCalls < MaxLoadCalls
    /\ loadCalls' = loadCalls + 1
    /\ recordEvent' = record
    /\ IF hasTheWindowLoadEventFired(navEntries)
       THEN /\ SetEff(eventListener([This EXCEPT !.recordEvent = record],
                                    Eff, "load"))
            /\ UNCHANGED listeners
       ELSE /\ listeners' = addEventListener(listeners, EventListenerRef)
            /\ UNCHANGED <<timers, recorded, fired>>
    /\ cancelled' = FALSE
    /\ retro' = "none"
    /\ lastOp' = "load"
    /\ UNCHANGED <<enabled, navEntries, timing, loadSignals>>

\* load(context) with context.record = record
load(record) ==
    /\ loadCalls < MaxLoadCalls
    /\ loadCalls' = loadCalls + 1
    /\ recordEvent' = record
    /\ IF enabled
       THEN IF hasTheWindowLoadEventFired(navEntries)
            THEN /\ SetEff(eventListener([This EXCEPT !.recordEvent = record],
                                         Eff, "load"))
                 /\ UNCHANGED listeners
            ELSE /\ listeners' = addEventListener(listeners, EventListenerRef)
                 /\ UNCHANGED <<timers, recorded, fired>>
       ELSE UNCHANGED <<listeners, timers, recorded, fired>>
    /\ cancelled' = FALSE
    /\ retro' = "none"
    /\ lastOp' = "load"
    /\ UNCHANGED <<enabled, navEntries, timing, loadSignals>>

\* an enable() that captures at once when the load has already fired
enableRetroactive ==
    /\ IF enabled
       THEN UNCHANGED <<enabled, listeners, retro, timers, recorded, fired>>
       ELSE /\ enabled' = TRUE
            /\ retro' = IF retro = "missed" THEN "reenabled" ELSE retro
            /\ IF hasTheWindowLoadEventFired(navEntries)
               THEN /\ SetEff(eventListener([This EXCEPT !.enabled = TRUE],
                                            Eff, "enable"))
                    /\ UNCHANGED listeners
               ELSE /\ listeners' =
                           addEventListener(listeners, EventListenerRef)
                    /\ UNCHANGED <<timers, recorded, fired>>
    /\ cancelled' = FALSE
    /\ lastOp' = "enable"
    /\ UNCHANGED <<recordEvent, navEntries, timing, loadSignals, loadCalls>>

\* an enable() that registers the listener without looking at this.enabled
enableUnguarded ==
    /\ enabled' = TRUE
    /\ listeners' = addEventListener(listeners, EventListenerRef)
    /\ cancelled' = FALSE
    /\ retro' = IF retro = "missed" THEN "reenabled" ELSE retro
    /\ lastOp' = "enable"
    /\ UNCHANGED <<recordEvent, navEntries, timing, timers, recorded, fired,
                   loadSignals, loadCalls>>

enable ==
    /\ IF enabled
       THEN UNCHANGED <<enabled, listeners, retro>>
       ELSE /\ enabled' = TRUE
            /\ listeners' = addEventListener(listeners, EventListenerRef)
            /\ retro' = IF retro = "missed" THEN "reenabled" ELSE retro
    /\ cancelled' = FALSE
    /\ lastOp' = "enable"
    /\ UNCHANGED <<recordEvent, navEntries, timing, timers, recorded, fired,
                   loadSignals, loadCalls>>

\* a disable() that leaves the listener registered
disableKeepsListener ==
    /\ IF ~enabled
       THEN UNCHANGED <<enabled, cancelled, retro>>
       ELSE /\ enabled' = FALSE
            /\ cancelled' = (listeners # <<>> /\ loadSignals = 0)
            /\ retro' = IF retro = "reenabled" THEN "missed" ELSE retro
    /\ lastOp' = "disable"
    /\ UNCHANGED <<recordEvent, listeners, navEntries, timing, timers,
                   recorded, fired, loadSignals, loadCalls>>

disable ==
    /\ IF ~enabled
       THEN UNCHANGED <<enabled, listeners, cancelled, retro>>
       ELSE /\ enabled' = FALSE
            /\ listeners' = removeEventListener(listeners, EventListenerRef)
            /\ cancelled' = (listeners # <<>> /\ loadSignals = 0)
            /\ retro' = IF retro = "reenabled" THEN "missed" ELSE retro
    /\ lastOp' = "disable"
    /\ UNCHANGED <<recordEvent, navEntries, timing, timers, recorded, fired,
                   loadSignals, loadCalls>>

\* a recordNavigation whose timeToFirstByte is guarded like an offset
recordNavigationTtfbGuarded ==
    /\ timers # <<>>
    /\ timers' = Tail(timers)
    /\ recorded' =
           IF recordEvent # undefined
           THEN Append(recorded,
                       RecordCall(This,
                                  [eventDataNavigationTimingLevel1(timing)
                                      EXCEPT !.timeToFirstByte =
                                          IF timing.requestStart > 0
                                          THEN timing.responseStart
                                                   - timing.requestStart
                                          ELSE 0],
                                  Head(timers), timing, "timer"))
           ELSE recorded
    /\ lastOp' = "timer"
    /\ UNCHANGED <<enabled, recordEvent, listeners, navEntries, timing, fired,
                   loadSignals, loadCalls, cancelled, retro>>

\* a recordNavigation whose tlsTime is computed without the guard on
\* secureConnectionStart
recordNavigationTlsUnguarded ==
    /\ timers # <<>>
    /\ timers' = Tail(timers)
    /\ recorded' =
           IF recordEvent # undefined
           THEN Append(recorded,
                       RecordCall(This,
                                  [eventDataNavigationTimingLevel1(timing)
                                      EXCEPT !.tlsTime =
                                          timing.connectEnd
                                              - timing.secureConnectionStart],
                                  Head(timers), timing, "timer"))
           ELSE recorded
    /\ lastOp' = "timer"
    /\ UNCHANGED <<enabled, recordEvent, listeners, navEntries, timing, fired,
                   loadSignals, loadCalls, cancelled, retro>>

\* recordNavigation, the callback of setTimeout(.., 0): reads
\* performance.timing now and records if a callback is set now
recordNavigation ==
    /\ timers # <<>>
    /\ timers' = Tail(timers)
    /\ recorded' =
           IF recordEvent # undefined
           THEN Append(recorded,
                       RecordCall(This, eventDataNavigationTimingLevel1(timing),
                                  Head(timers), timing, "timer"))
           ELSE recorded
    /\ lastOp' = "timer"
    /\ UNCHANGED <<enabled, recordEvent, listeners, navEntries, timing, fired,
                   loadSignals, loadCalls, cancelled, retro>>

(***************************************************************************)
(* Operations of the host.                                                 *)
(***************************************************************************)
\* the host delivers the load signal to window
dispatchLoad ==
    /\ loadSignals < MaxLoadSignals
    /\ loadSignals' = loadSignals + 1
    /\ SetEff(CallListeners(listeners, This, Eff))
    /\ retro' = IF enabled THEN "none" ELSE "missed"
    /\ lastOp' = "dispatch"
    /\ UNCHANGED <<enabled, recordEvent, listeners, navEntries, timing,
                   loadCalls, cancelled>>

\* the host creates the navigation entry of the page
createNavigationEntry ==
    /\ navEntries = <<>>
    /\ navEntries' =
           <<[PageEntry EXCEPT !.loadEventEnd =
                  IF timing.loadEventEnd > 0
                  THEN timing.loadEventEnd - timing.navigationStart ELSE 0]>>
    /\ lastOp' = "createEntry"
    /\ UNCHANGED <<enabled, recordEvent, listeners, timing, timers, recorded,
                   fired, loadSignals, loadCalls, cancelled, retro>>

\* the host completes the load event: loadEventEnd gets its value
completeLoadEvent ==
    /\ timing.loadEventEnd = 0
    /\ timing' = [timing EXCEPT !.loadEventEnd = timing.loadEventStart + 1]
    /\ navEntries' =
           [i \in 1..Len(navEntries) |->
               [navEntries[i] EXCEPT !.loadEventEnd =
                    navEntries[i].loadEventStart + 1]]
    /\ lastOp' = "completeLoad"
    /\ UNCHANGED <<enabled, recordEvent, listeners, timers, recorded, fired,
                   loadSignals, loadCalls, cancelled, retro>>

(***************************************************************************)
(* Specifications.                                                         *)
(***************************************************************************)
\* the state after the constructor, on one of the given hosts
InitOn(hosts) ==
    /\ enabled = TRUE
    /\ recordEvent = undefined
    /\ listeners = <<>>
    /\ \E host \in hosts :
           /\ navEntries = host.navEntries
           /\ timing = host.timing
    /\ timers = <<>>
    /\ recorded = <<>>
    /\ fired = <<>>
    /\ loadSignals = 0
    /\ loadCalls = 0
    /\ cancelled = FALSE
    /\ retro = "none"
    /\ lastOp = "constructor"

\* the lifecycle, on one page whose load is in progress
Init ==
    InitOn({[timing |-> PageTiming, navEntries |-> <<>>],
            [timing |-> PageTiming, navEntries |-> <<PageEntry>>]})

Next ==
    \/ \E record \in Callbacks : load(record)
    \/ enable
    \/ disable
    \/ recordNavigation
    \/ dispatchLoad
    \/ createNavigationEntry
    \/ completeLoadEvent

Spec == Init /\ [][Next]_vars

\* the lifecycle with the scheduling of the host: a pending zero-delay
\* timer callback is eventually run
FairSpec == Spec /\ WF_vars(recordNavigation)

\* the normalizations, on every legacy host of NormTimings and every modern
\* host of NormEntries
NormHosts ==
    {[timing |-> t, navEntries |-> <<>>] :
        t \in NormTimings \cup {ScenarioTiming}} \cup
    {[timing |-> PageTiming, navEntries |-> <<e>>] :
        e \in NormEntries \cup {ScenarioEntry}}

InitNorm == InitOn(NormHosts)

NextNorm ==
    \/ \E record \in Callbacks : load(record)
    \/ recordNavigation
    \/ dispatchLoad

NormSpec == InitNorm /\ [][NextNorm]_vars
(***************************************************************************)
(* Properties.                                                             *)
(***************************************************************************)
\* the captures that ran in the step, by their place in the history
NewCaptures == (Len(fired) + 1)..Len(fired')

\* the captures whose event reached a recording callback
RecordedCaptures == {recorded[i].capture : i \in 1..Len(recorded)}

\* a capture ran synchronously inside load()
CapturedInLoad == \E k \in 1..Len(fired) : fired[k].via = "load"

\* C1: within one page load (the host has delivered the load signal at most
\* once) the recording callback is invoked at most once, whatever the
\* sequence of load, enable, disable calls, also when load() is called more
\* than once.
C1_RecordedAtMostOnce == loadSignals <= 1 => Len(recorded) <= 1

\* C2: the recording callback is invoked only while the component is enabled:
\* this.enabled is true at each call, also when disable() comes between the
\* load signal and the deferred callback of the Level 1 path.
C2_RecordedOnlyWhileEnabled ==
    \A i \in 1..Len(recorded) : recorded[i].enabled

\* C3: once disable() has removed an armed listener before any load signal,
\* and as long as neither enable() nor load() is called, no capture runs and
\* no event is recorded, however often the host delivers the load signal;
\* unless load() had found the load already fired, nothing was recorded at all.
C3_CancelledNeverCaptures ==
    /\ [][cancelled /\ cancelled' =>
              /\ recorded' = recorded
              /\ fired' = fired
              /\ timers' = timers]_vars
    /\ [](cancelled =>
              /\ listeners = <<>>
              /\ timers = <<>>
              /\ (~CapturedInLoad => recorded = <<>>))

\* C3 witness: the load signal was delivered after the cancellation, to a
\* component that holds a callback, and nothing was recorded.
C3_Witness ==
    /\ cancelled
    /\ loadSignals > 0
    /\ recordEvent # undefined
    /\ recorded = <<>>
    /\ fired = <<>>

\* C4 as stated: once load() has found the load already fired and captured
\* synchronously, no load-signal listener is registered at that call or at
\* any later point, also after disable() followed by enable().
C4_NoListenerEverRegistered ==
    [][CapturedInLoad' => Len(listeners') <= Len(listeners)]_vars

\* C4 as amended: load() on an enabled component whose first navigation entry
\* has a non-zero loadEventEnd runs exactly one capture inside the call, on
\* the Level 2 path and recorded at once, and the call leaves the listener
\* list as it was; an enable() of a disabled component registers the listener
\* whether or not the load was captured.
C4_SyncCaptureRegistersNothing ==
    /\ [][(/\ loadCalls' = loadCalls + 1
           /\ enabled
           /\ Len(navEntries) >= 1
           /\ navEntries[1].loadEventEnd # 0) =>
              /\ Len(fired') = Len(fired) + 1
              /\ fired'[Len(fired')].via = "load"
              /\ Len(recorded') = Len(recorded) + 1
              /\ recorded'[Len(recorded')].op = "load"
              /\ timers' = timers
              /\ listeners' = listeners]_vars
    /\ [][(~enabled /\ enabled') => listeners' = <<EventListenerRef>>]_vars

\* C4 witness: the load was captured inside load(), no listener is
\* registered, and one event was recorded in that call.
C4_Witness ==
    /\ lastOp = "load"
    /\ CapturedInLoad
    /\ listeners = <<>>
    /\ Len(recorded) = 1
    /\ recorded[1].op = "load"

\* C5: enable() on an enabled component and disable() on a disabled one change
\* neither this.enabled, nor the stored callback, nor the listener list; the
\* list never holds the listener twice, and one load signal runs at most one
\* capture.
C5_DoubleEnableDisableNoOp ==
    /\ [][/\ (lastOp' = "enable" /\ enabled) =>
                 UNCHANGED <<enabled, recordEvent, listeners>>
          /\ (lastOp' = "disable" /\ ~enabled) =>
                 UNCHANGED <<enabled, recordEvent, listeners>>
          /\ (loadSignals' = loadSignals + 1) =>
                 Len(fired') <= Len(fired) + 1]_vars
    /\ [](Len(listeners) <= 1)

\* C5 witness: enable() has just returned on a component that was enabled
\* already (an enable() of a disabled one would have registered the listener).
C5_Witness ==
    /\ lastOp = "enable"
    /\ enabled
    /\ listeners = <<>>
    /\ recordEvent # undefined
\* C6: the path is chosen from the navigation entries as they are when the
\* capture fires.  With at least one entry only the Level 2 path runs, on the
\* first entry: no timer is scheduled and the event, if a callback is set, is
\* recorded with navigationTimingLevel 2.  With no entry only the Level 1
\* path runs: one timer is scheduled per capture and nothing is recorded in
\* that turn; the event recorded later has navigationTimingLevel 1.
C6_PathChosenAtFiring ==
    /\ [][NewCaptures # {} =>
              IF Len(navEntries) >= 1
              THEN /\ \A k \in NewCaptures : fired'[k].path = 2
                   /\ timers' = timers
                   /\ Len(recorded') - Len(recorded) =
                          IF recordEvent' # undefined
                          THEN Cardinality(NewCaptures) ELSE 0
                   /\ \A i \in (Len(recorded) + 1)..Len(recorded') :
                          /\ recorded'[i].event.navigationTimingLevel = 2
                          /\ recorded'[i].raw = navEntries[1]
              ELSE /\ \A k \in NewCaptures : fired'[k].path = 1
                   /\ Len(timers') - Len(timers) = Cardinality(NewCaptures)
                   /\ recorded' = recorded]_vars
    /\ [](\A i \in 1..Len(recorded) :
              recorded[i].event.navigationTimingLevel =
                  fired[recorded[i].capture].path)

\* C6 witness: on one page a capture that fired without an entry was recorded
\* at Level 1 and a capture that fired after the entry appeared at Level 2.
C6_Witness ==
    \E i, j \in 1..Len(recorded) :
        /\ recorded[i].event.navigationTimingLevel = 1
        /\ recorded[j].event.navigationTimingLevel = 2

\* C7: on the Level 1 path the handler of the load signal records nothing: it
\* schedules one deferred callback, and the event is recorded in the turn of
\* that callback; on the Level 2 path the event is recorded in the turn of
\* the capture itself.
C7_Level1Deferred ==
    /\ [][\A k \in NewCaptures :
              /\ fired'[k].path = 1 =>
                     /\ recorded' = recorded
                     /\ \E t \in 1..Len(timers') : timers'[t] = k
              /\ (fired'[k].path = 2 /\ fired'[k].hadCallback) =>
                     \E i \in (Len(recorded) + 1)..Len(recorded') :
                         recorded'[i].capture = k]_vars
    /\ [](\A i \in 1..Len(recorded) :
              IF recorded[i].event.navigationTimingLevel = 1
              THEN recorded[i].op = "timer"
              ELSE recorded[i].op = fired[recorded[i].capture].via)

\* C7 witness: the handler of the load signal has returned on the Level 1
\* path: the callback is set, the timer is pending, nothing is recorded.
C7_Witness ==
    /\ lastOp = "dispatch"
    /\ Len(fired) = 1
    /\ fired[1].path = 1
    /\ fired[1].hadCallback
    /\ timers = <<1>>
    /\ recorded = <<>>

\* C8: a capture fired by the load signal on an enabled component that holds
\* a recording callback is eventually recorded, unless the component is
\* disabled afterwards (at once on the Level 2 path; on the Level 1 path when
\* the host runs the pending zero-delay callback).
C8_SignalEventuallyRecorded ==
    \A k \in 1..(MaxLoadCalls + MaxLoadSignals) :
        [](/\ Len(fired) >= k
           /\ fired[k].via = "dispatch"
           /\ fired[k].hadCallback
           /\ fired[k].enabled
           => <>(k \in RecordedCaptures \/ ~enabled))

\* C8 witness: a Level 1 capture fired by the load signal with a callback set
\* was recorded by the deferred callback while the component was enabled.
C8_Witness ==
    \E i \in 1..Len(recorded) :
        /\ recorded[i].op = "timer"
        /\ recorded[i].enabled
        /\ fired[recorded[i].capture].via = "dispatch"
        /\ fired[recorded[i].capture].hadCallback

\* C9 as stated: a capture that fires while no recording callback is set is
\* dropped: its event is never recorded, also when load() supplies a callback
\* before the deferred callback of the Level 1 path runs.
C9_FiredWithoutCallbackNeverRecorded ==
    \A i \in 1..Len(recorded) : fired[recorded[i].capture].hadCallback

\* C9 as amended: the callback is looked up when the event is to be recorded.
\* A Level 2 capture that fires while no callback is set is never recorded.
\* A deferred Level 1 callback that runs while no callback is set records
\* nothing and is not run again; no call is ever made to an unset callback and
\* no capture is recorded twice.
C9_DroppedWhenUnsetAtRecording ==
    /\ [](\A k \in 1..Len(fired) :
              (fired[k].path = 2 /\ ~fired[k].hadCallback) =>
                  k \notin RecordedCaptures)
    /\ [](\A i \in 1..Len(recorded) :
              /\ recorded[i].callback # undefined
              /\ \A j \in 1..Len(recorded) :
                     recorded[j].capture = recorded[i].capture => j = i
              /\ \A t \in 1..Len(timers) : timers[t] # recorded[i].capture)
    /\ [][(lastOp' = "timer" /\ recordEvent = undefined) =>
              /\ recorded' = recorded
              /\ \A t \in 1..Len(timers') : timers'[t] # Head(timers)]_vars

\* C9 witness: a Level 2 capture fired while no callback was set; a callback
\* has been supplied since, and the capture is not recorded.
C9_Witness ==
    \E k \in 1..Len(fired) :
        /\ fired[k].path = 2
        /\ ~fired[k].hadCallback
        /\ recordEvent # undefined
        /\ k \notin RecordedCaptures

\* the offset fields of an event
OffsetFields ==
    {"unloadEventStart", "redirectStart", "fetchStart", "domainLookupStart",
     "connectStart", "secureConnectionStart", "requestStart", "responseStart",
     "domInteractive", "domContentLoadedEventStart", "domComplete",
     "loadEventStart"}

\* the recorded Level 1 events
Level1Calls ==
    {i \in 1..Len(recorded) : recorded[i].event.navigationTimingLevel = 1}

\* C10 as stated: every offset field of a recorded Level 1 event is
\* non-negative, for every raw timing record and every navigationStart, and
\* is 0 whenever the raw timestamp is 0 or negative.
C10_OffsetsNeverNegative ==
    \A i \in Level1Calls : \A f \in OffsetFields :
        /\ recorded[i].event[f] >= 0
        /\ recorded[i].raw[f] <= 0 => recorded[i].event[f] = 0

\* C10 as amended: every offset field of a recorded Level 1 event is 0
\* whenever the raw timestamp is 0 or negative, and is non-negative whenever
\* the raw timestamp is not earlier than navigationStart; a positive raw
\* timestamp earlier than navigationStart gives a negative offset.
C10_OffsetsOfValidTimestamps ==
    \A i \in Level1Calls : \A f \in OffsetFields :
        /\ recorded[i].raw[f] <= 0 => recorded[i].event[f] = 0
        /\ recorded[i].raw[f] >= recorded[i].raw.navigationStart =>
               recorded[i].event[f] >= 0
        /\ (/\ recorded[i].raw[f] > 0
            /\ recorded[i].raw[f] < recorded[i].raw.navigationStart) =>
               recorded[i].event[f] < 0

\* C10 witness: a recorded Level 1 event with a negative raw timestamp, whose
\* offset is 0, and a raw timestamp past navigationStart, whose offset is
\* positive.
C10_Witness ==
    \E i \in Level1Calls : \E f, g \in OffsetFields :
        /\ recorded[i].raw[f] < 0
        /\ recorded[i].event[f] = 0
        /\ recorded[i].raw[g] > recorded[i].raw.navigationStart
        /\ recorded[i].event[g] > 0

\* the duration fields of an event, each with the later and the earlier
\* boundary it is the difference of
Durations ==
    {[field |-> "promptForUnload", later |-> "unloadEventEnd",
      earlier |-> "unloadEventStart"],
     [field |-> "redirectTime", later |-> "redirectEnd",
      earlier |-> "redirectStart"],
     [field |-> "dns", later |-> "domainLookupEnd",
      earlier |-> "domainLookupStart"],
     [field |-> "connect", later |-> "connectEnd",
      earlier |-> "connectStart"],
     [field |-> "tlsTime", later |-> "connectEnd",
      earlier |-> "secureConnectionStart"],
     [field |-> "timeToFirstByte", later |-> "responseStart",
      earlier |-> "requestStart"],
     [field |-> "responseTime", later |-> "responseEnd",
      earlier |-> "responseStart"],
     [field |-> "domContentLoaded", later |-> "domContentLoadedEventEnd",
      earlier |-> "domContentLoadedEventStart"],
     [field |-> "domProcessingTime", later |-> "loadEventStart",
      earlier |-> "responseEnd"],
     [field |-> "loadEventTime", later |-> "loadEventEnd",
      earlier |-> "loadEventStart"]}

\* the durations the code computes only when the earlier boundary is positive
GuardedDurations == {"tlsTime", "responseTime"}

\* C11 as stated: for every duration field of a recorded event, on either
\* path, the duration is 0 if the earlier boundary is 0, and is never
\* negative.
C11_DurationsZeroOrPositive ==
    \A i \in 1..Len(recorded) : \A d \in Durations :
        /\ recorded[i].raw[d.earlier] = 0 => recorded[i].event[d.field] = 0
        /\ recorded[i].event[d.field] >= 0

\* C11 as amended: on either path tlsTime and responseTime are 0 if the
\* earlier boundary is 0 (or negative); each of the other eight durations is
\* then the later boundary itself, 0 only if that is 0 too.  A duration is
\* non-negative whenever its later boundary is not smaller than its earlier
\* boundary.
C11_GuardedDurationsZero ==
    \A i \in 1..Len(recorded) : \A d \in Durations :
        /\ (d.field \in GuardedDurations /\ recorded[i].raw[d.earlier] <= 0)
               => recorded[i].event[d.field] = 0
        /\ (d.field \notin GuardedDurations /\ recorded[i].raw[d.earlier] = 0)
               => recorded[i].event[d.field] = recorded[i].raw[d.later]
        /\ recorded[i].raw[d.later] >= recorded[i].raw[d.earlier]
               => recorded[i].event[d.field] >= 0

\* C11 witness: a recorded Level 1 event whose secureConnectionStart and
\* domainLookupStart are 0 while connectEnd and domainLookupEnd are not:
\* tlsTime is 0 and dns is not.
C11_Witness ==
    \E i \in Level1Calls :
        /\ recorded[i].raw.secureConnectionStart = 0
        /\ recorded[i].raw.connectEnd > 0
        /\ recorded[i].event.tlsTime = 0
        /\ recorded[i].raw.domainLookupStart = 0
        /\ recorded[i].event.dns > 0

\* C12 as stated: every duration field of a recorded event equals later
\* boundary - earlier boundary, with no clamping or guarding, for every raw
\* input, tlsTime and responseTime included.
C12_DurationsUnguarded ==
    \A i \in 1..Len(recorded) : \A d \in Durations :
        recorded[i].event[d.field] =
            recorded[i].raw[d.later] - recorded[i].raw[d.earlier]

\* C12 as amended: on either path every duration field other than tlsTime and
\* responseTime equals later boundary - earlier boundary for every raw input,
\* negative results included; tlsTime and responseTime equal that difference
\* only when the earlier boundary (secureConnectionStart, responseStart) is
\* positive, and are 0 otherwise.
C12_DurationsAsComputed ==
    \A i \in 1..Len(recorded) : \A d \in Durations :
        recorded[i].event[d.field] =
            IF d.field \in GuardedDurations /\ recorded[i].raw[d.earlier] <= 0
            THEN 0
            ELSE recorded[i].raw[d.later] - recorded[i].raw[d.earlier]

\* C12 witness: a recorded Level 2 event with a negative dns (no clamping) and
\* a responseTime of 0 although responseEnd - responseStart is not 0.
C12_Witness ==
    \E i \in 1..Len(recorded) :
        /\ recorded[i].event.navigationTimingLevel = 2
        /\ recorded[i].event.dns < 0
        /\ recorded[i].event.responseTime = 0
        /\ recorded[i].raw.responseEnd - recorded[i].raw.responseStart # 0

\* C13: the Level 1 normalization of a raw record with origin navigationStart
\* gives each offset as raw > 0 ? raw - origin : 0, timeToFirstByte as
\* responseStart - requestStart without a guard, duration as loadEventEnd -
\* navigationStart and navigationTimingLevel 1; the scenario's record gives
\* requestStart 200, timeToFirstByte 50, responseStart 250, responseTime 50
\* and duration 450.
C13_Level1Normalization ==
    \A i \in 1..Len(recorded) :
        recorded[i].op = "timer" =>
            LET raw == recorded[i].raw
                event == recorded[i].event
            IN  /\ \A f \in OffsetFields :
                       event[f] = IF raw[f] > 0
                                  THEN raw[f] - raw.navigationStart ELSE 0
                /\ event.timeToFirstByte =
                       raw.responseStart - raw.requestStart
                /\ event.duration = raw.loadEventEnd - raw.navigationStart
                /\ event.navigationTimingLevel = 1
                /\ raw = ScenarioTiming =>
                       /\ event.requestStart = 200
                       /\ event.timeToFirstByte = 50
                       /\ event.responseStart = 250
                       /\ event.responseTime = 50
                       /\ event.duration = 450

\* C13 witness: the event of the scenario's record has been recorded.
C13_Witness ==
    \E i \in 1..Len(recorded) :
        /\ recorded[i].raw = ScenarioTiming
        /\ recorded[i].event.requestStart = 200
        /\ recorded[i].event.duration = 450
        /\ recorded[i].event.navigationTimingLevel = 1

\* the recorded Level 2 events
Level2Calls ==
    {i \in 1..Len(recorded) : recorded[i].event.navigationTimingLevel = 2}

\* C14: the Level 2 normalization gives headerSize as transferSize -
\* encodedBodySize, workerTime as workerStart > 0 ? fetchStart - workerStart
\* : 0, and compressionRatio as decodedBodySize / encodedBodySize when
\* encodedBodySize > 0 and as 0 otherwise (no division by zero); the
\* scenario's entry gives headerSize 200 and compressionRatio 3.
C14_Level2DerivedFields ==
    \A i \in Level2Calls :
        LET raw == recorded[i].raw
            event == recorded[i].event
        IN  /\ event.headerSize = raw.transferSize - raw.encodedBodySize
            /\ event.workerTime = IF raw.workerStart > 0
                                  THEN raw.fetchStart - raw.workerStart ELSE 0
            /\ event.compressionRatio.den > 0
            /\ IF raw.encodedBodySize > 0
               THEN event.compressionRatio.num * raw.encodedBodySize =
                        raw.decodedBodySize * event.compressionRatio.den
               ELSE event.compressionRatio.num = 0
            /\ raw = ScenarioEntry =>
                   /\ event.headerSize = 200
                   /\ event.compressionRatio = [num |-> 3, den |-> 1]

\* C14 witness: the event of the scenario's entry has been recorded.
C14_Witness ==
    \E i \in Level2Calls :
        /\ recorded[i].raw = ScenarioEntry
        /\ recorded[i].event.headerSize = 200
        /\ recorded[i].event.compressionRatio.num = 3
        /\ recorded[i].event.compressionRatio.den = 1

\* C15: the load-signal listener is one-shot: once a load signal has run it,
\* a second load signal that follows with no load() or enable() in between
\* runs no capture.
C15_ListenerOneShot ==
    [][(/\ lastOp = "dispatch"
        /\ listeners # <<>>
        /\ loadSignals' = loadSignals + 1) => fired' = fired]_vars

\* C16 as stated: once a load signal was delivered while the component was
\* disabled and enable() was called afterwards, no event is ever recorded
\* unless load() is called again or the load signal is delivered again.
C16_NothingRecordedAfterReenable ==
    [][(retro = "reenabled" /\ retro' = "reenabled") =>
           recorded' = recorded]_vars

\* C16 as amended: enable() of a disabled component only sets this.enabled
\* and registers the listener; it runs no capture and records nothing.  After
\* a load signal delivered while disabled and a later enable(), no capture
\* runs until load() is called or the load signal is delivered again, and an
\* event is recorded only by a deferred Level 1 callback that was pending
\* already.
C16_EnableNeverCaptures ==
    /\ [][lastOp' = "enable" =>
              /\ UNCHANGED <<recordEvent, timers, recorded, fired>>
              /\ ~enabled => (enabled' /\ listeners' = <<EventListenerRef>>)]_vars
    /\ [][(retro = "reenabled" /\ retro' = "reenabled") =>
              /\ fired' = fired
              /\ recorded' # recorded =>
                     (lastOp' = "timer" /\ timers # <<>>)
              /\ timers = <<>> => timers' = <<>>]_vars

\* C16 witness: the page finished loading while the component was disabled;
\* it holds a callback, was enabled again, and nothing has been captured.
C16_Witness ==
    /\ retro = "reenabled"
    /\ enabled
    /\ recordEvent # undefined
    /\ timing.loadEventEnd # 0
    /\ listeners = <<EventListenerRef>>
    /\ fired = <<>>
    /\ recorded = <<>>

\* C17: load() on a disabled component only stores the callback: it runs no
\* capture and registers no listener, whether or not the load has fired;
\* this.enabled and the listener list are unchanged.
C17_LoadWhileDisabledOnlyStores ==
    [][(loadCalls' = loadCalls + 1 /\ ~enabled) =>
           /\ recordEvent' \in Callbacks
           /\ UNCHANGED <<enabled, listeners, timers, recorded, fired>>]_vars

\* C17 witness: load() has just returned on a disabled component whose host
\* reports the load as fired: the callback is stored, nothing else happened.
C17_Witness ==
    /\ lastOp = "load"
    /\ ~enabled
    /\ recordEvent # undefined
    /\ Len(navEntries) >= 1
    /\ navEntries[1].loadEventEnd # 0
    /\ listeners = <<>>
    /\ fired = <<>>

C19_ListenerImpliesEnabled ==
    listeners # <<>> => (enabled /\ listeners = <<EventListenerRef>>)

\* C19 witness: disable() has just removed a listener that load() had
\* registered.
C19_Witness ==
    /\ lastOp = "disable"
    /\ cancelled
    /\ ~enabled
    /\ loadCalls > 0
    /\ listeners = <<>>

\* C20: a capture that runs inside load() takes the Level 2 path: it
\* schedules no timer and its event has navigationTimingLevel 2.
C20_SyncCaptureIsLevel2 ==
    /\ [](\A k \in 1..Len(fired) : fired[k].via = "load" => fired[k].path = 2)
    /\ [](\A i \in 1..Len(recorded) :
              recorded[i].op = "load" =>
                  recorded[i].event.navigationTimingLevel = 2)
    /\ [][loadCalls' = loadCalls + 1 => timers' = timers]_vars

\* C20 witness: an event recorded inside load(), at Level 2, with no timer
\* pending.
C20_Witness ==
    /\ timers = <<>>
    /\ \E i \in 1..Len(recorded) :
           /\ recorded[i].op = "load"
           /\ recorded[i].event.navigationTimingLevel = 2
           /\ fired[recorded[i].capture].path = 2
====
